---- MODULE Spec2Model ----
(***************************************************************************)
(* Model of cv/classification/main.py: the training / evaluation driver.   *)
(*                                                                         *)
(*   Spec            one process running main(config): resume dispatch,    *)
(*                   the epoch loop, train_one_epoch per micro-batch.      *)
(*   SpecValidate    one call of validate(), per validation batch.         *)
(*   SpecThroughput  one call of throughput(), per forward pass.           *)
(*   SpecDist        W processes running the __main__ block and main(),    *)
(*                   interleaved, at the granularity of their file writes. *)
(*   SpecLR          the learning-rate rescaling of the __main__ block.    *)
(***************************************************************************)
EXTENDS Integers, Sequences, FiniteSets, TLC

\* ------------------------------------------------------------------ bounds
MaxEpochs == 2
MaxBatches == 3
MaxAccum == 2
MaxSaveFreq == 2
MaxAccVal == 1

\* ------------------------------------------------------------- variables
VARIABLES
    \* main(config), one process
    config,        \* the configuration fields main and train_one_epoch read
    rank,          \* flow.env.get_rank()
    num_steps,     \* len(data_loader_train): micro-batches per epoch
    pc,            \* position in main
    epoch,         \* loop variable of main's epoch loop
    idx,           \* loop variable of train_one_epoch: next micro-batch index
    max_accuracy,  \* main's max_accuracy
    grads,         \* micro-batches <<epoch, idx>> whose gradients are accumulated in .grad
    optSteps,      \* optimizer.step calls in the current train_one_epoch call
    schedSteps,    \* lr_scheduler.step calls in the current train_one_epoch call
    clips,         \* micro-batch indices of the current call at which clip_grad_norm_ ran
    applied,       \* per optimizer.step of the run: [epoch, idx, grads] it applied
    log            \* sequence of the calls main made: [op, epoch, val]

mainVars == <<config, rank, num_steps, pc, epoch, idx,
              max_accuracy, grads, optSteps, schedSteps, clips, applied, log>>

VARIABLES
    \* validate(config, data_loader, model)
    data_loader_val, \* per batch: reduced acc1, reduced acc5, target.size(0)
    PRINT_FREQ,      \* config.PRINT_FREQ
    v_pc,            \* position in validate
    v_idx,           \* loop variable of validate
    acc1_meter,      \* AverageMeter of top-1
    acc5_meter,      \* AverageMeter of top-5
    acc1_avg,        \* local acc1_avg: Unbound until the log block assigns it
    acc5_avg,        \* local acc5_avg
    time_resets,     \* batch_time.reset() calls
    v_ret            \* what validate returned

valVars == <<data_loader_val, PRINT_FREQ, v_pc, v_idx, acc1_meter, acc5_meter,
             acc1_avg, acc5_avg, time_resets, v_ret>>

VARIABLES
    \* throughput(data_loader, model, logger)
    t_len,         \* number of batches the loader can yield
    t_pc,          \* position in throughput
    t_fetched,     \* batches fetched from the loader so far
    t_i,           \* loop variable of the warm-up / timed loop
    model_calls,   \* model(images) calls so far
    call_batches,  \* indices of the batches the model was called on
    syncs,         \* flow.cuda.synchronize() calls so far
    tic1,          \* Unset, or what had happened when tic1 = time.time() ran
    tic2           \* Unset, or what had happened when tic2 = time.time() ran

tpVars == <<t_len, t_pc, t_fetched, t_i, model_calls, call_batches, syncs, tic1, tic2>>

VARIABLES
    \* W processes running the __main__ block and main
    world_size,    \* flow.env.get_world_size()
    d_pc,          \* per rank: position in __main__ / main
    d_epoch,       \* per rank: epoch of main's loop
    dir_exists,    \* config.OUTPUT exists
    writes,        \* writes to config.OUTPUT: [rank, kind, epoch]
    config_writes  \* number of times config.json was written

distVars == <<world_size, d_pc, d_epoch, dir_exists, writes, config_writes>>

VARIABLES
    \* learning-rate rescaling of the __main__ block
    lr_in,                   \* the configuration as parsed: rates, batch size, accumulation
    lr_world,                \* flow.env.get_world_size()
    lr_pc,                   \* position in the rescaling
    linear_scaled_lr,
    linear_scaled_warmup_lr,
    linear_scaled_min_lr,
    lr_config                \* config.TRAIN.{BASE_LR, WARMUP_LR, MIN_LR} as stored

lrVars == <<lr_in, lr_world, lr_pc, linear_scaled_lr, linear_scaled_warmup_lr,
            linear_scaled_min_lr, lr_config>>

vars == <<mainVars, valVars, tpVars, distVars, lrVars>>

notMain == <<valVars, tpVars, distVars, lrVars>>

\* ---------------------------------------------------------------- helpers
Max(a, b) == IF a >= b THEN a ELSE b

Event(op, e, v) == [op |-> op, epoch |-> e, val |-> v]

ConfigSpace ==
    [EVAL_MODE : BOOLEAN, THROUGHPUT_MODE : BOOLEAN, AUTO_RESUME : BOOLEAN,
     RESUME : BOOLEAN, START_EPOCH : 0..1, EPOCHS : 0..MaxEpochs,
     SAVE_FREQ : 1..MaxSaveFreq, ACCUMULATION_STEPS : 0..MaxAccum,
     CLIP_GRAD : BOOLEAN]

\* ------------------------------------------------------------------- main
InitMain ==
    /\ config \in ConfigSpace
    /\ rank \in 0..1
    /\ num_steps \in 0..MaxBatches
    /\ pc = "auto_resume"
    /\ epoch = 0
    /\ idx = 0
    /\ max_accuracy = 0
    /\ grads = {}
    /\ optSteps = 0
    /\ schedSteps = 0
    /\ clips = {}
    /\ applied = {}
    /\ log = <<>>

\* main, lines 159-171: auto-resume replaces config.MODEL.RESUME when a file is found
AutoResume ==
    /\ pc = "auto_resume"
    /\ IF config.AUTO_RESUME
       THEN \E found \in BOOLEAN :           \* auto_resume_helper(config.OUTPUT)
              config' = IF found THEN [config EXCEPT !.RESUME = TRUE] ELSE config
       ELSE config' = config
    /\ pc' = "resume"
    /\ UNCHANGED notMain
    /\ UNCHANGED <<rank, num_steps, epoch, idx, max_accuracy,
                   grads, optSteps, schedSteps, clips, applied, log>>

\* main, lines 173-183: load_checkpoint, validate, return in eval mode
Resume ==
    /\ pc = "resume"
    /\ IF config.RESUME
       THEN \E best \in 0..MaxAccVal, acc1 \in 0..MaxAccVal :
              /\ max_accuracy' = best         \* load_checkpoint returns the stored best
              /\ log' = log \o <<Event("load_checkpoint", -1, best),
                                 Event("validate", -1, acc1)>>
              /\ pc' = IF config.EVAL_MODE THEN "done" ELSE "throughput_mode"
       ELSE /\ pc' = "throughput_mode"
            /\ UNCHANGED <<max_accuracy, log>>
    /\ UNCHANGED notMain
    /\ UNCHANGED <<config, rank, num_steps, epoch, idx,
                   grads, optSteps, schedSteps, clips, applied>>

\* main, lines 185-191: validate, throughput, return
ThroughputMode ==
    /\ pc = "throughput_mode"
    /\ config.THROUGHPUT_MODE
    /\ \E acc1 \in 0..MaxAccVal :
         log' = log \o <<Event("validate", -1, acc1), Event("throughput", -1, 0)>>
    /\ pc' = "done"
    /\ UNCHANGED notMain
    /\ UNCHANGED <<config, rank, num_steps, epoch, idx,
                   max_accuracy, grads, optSteps, schedSteps, clips, applied>>

\* main, lines 193-195: enter the epoch loop at START_EPOCH
StartTraining ==
    /\ pc = "throughput_mode"
    /\ ~config.THROUGHPUT_MODE
    /\ epoch' = config.START_EPOCH
    /\ pc' = "epoch_loop"
    /\ UNCHANGED notMain
    /\ UNCHANGED <<config, rank, num_steps, idx,
                   max_accuracy, grads, optSteps, schedSteps, clips, applied, log>>

\* variant: no zero_grad at the start of the epoch
KeepGradAtEpochStart(g) == g

\* train_one_epoch, line 239: optimizer.zero_grad() before the first micro-batch
ZeroGradAtEpochStart(g) == {}

\* main, line 195 and train_one_epoch, lines 238-246: next epoch or leave the loop;
\* train_one_epoch starts with optimizer.zero_grad()
TrainBegin ==
    /\ pc = "epoch_loop"
    /\ epoch < config.EPOCHS
    /\ grads' = ZeroGradAtEpochStart(grads)
    /\ idx' = 0
    /\ optSteps' = 0
    /\ schedSteps' = 0
    /\ clips' = {}
    /\ log' = Append(log, Event("train_one_epoch", epoch, 0))
    /\ pc' = "train"
    /\ UNCHANGED notMain
    /\ UNCHANGED <<config, rank, num_steps, epoch,
                   max_accuracy, applied>>

\* main, lines 195 and 230-232: range exhausted
TrainingDone ==
    /\ pc = "epoch_loop"
    /\ epoch >= config.EPOCHS
    /\ pc' = "done"
    /\ UNCHANGED notMain
    /\ UNCHANGED <<config, rank, num_steps, epoch, idx,
                   max_accuracy, grads, optSteps, schedSteps, clips, applied, log>>

\* variant: the step test on idx instead of idx + 1
StepDueOffByOne(i, k) == i % k = 0

\* train_one_epoch, line 264: (idx + 1) % ACCUMULATION_STEPS == 0
StepDue(i, k) == (i + 1) % k = 0

\* train_one_epoch, lines 256-267: the accumulation branch of one micro-batch
AccumBranch(k) ==
    LET g  == grads \cup {<<epoch, idx>>}                    \* loss.backward()
        st == StepDue(idx, k)
    IN  /\ clips' = IF config.CLIP_GRAD THEN clips \cup {idx} ELSE clips
        /\ IF st
           THEN /\ applied' = applied \cup {[epoch |-> epoch, idx |-> idx, grads |-> g]}
                /\ optSteps' = optSteps + 1                 \* optimizer.step()
                /\ grads' = {}                              \* optimizer.zero_grad()
                /\ schedSteps' = schedSteps + 1             \* lr_scheduler.step()
           ELSE /\ grads' = g
                /\ UNCHANGED <<applied, optSteps, schedSteps>>

\* train_one_epoch, lines 268-277: one optimizer step per micro-batch
PlainBranch ==
    LET g == {<<epoch, idx>>}            \* optimizer.zero_grad(); loss.backward()
    IN  /\ clips' = IF config.CLIP_GRAD THEN clips \cup {idx} ELSE clips
        /\ applied' = applied \cup {[epoch |-> epoch, idx |-> idx, grads |-> g]}
        /\ optSteps' = optSteps + 1                         \* optimizer.step()
        /\ grads' = g
        /\ schedSteps' = schedSteps + 1                     \* lr_scheduler.step()

\* train_one_epoch, lines 247-297: the body of the loop for micro-batch idx
TrainBatch ==
    /\ pc = "train"
    /\ idx < num_steps
    /\ IF config.ACCUMULATION_STEPS > 1
       THEN AccumBranch(config.ACCUMULATION_STEPS)
       ELSE PlainBranch
    /\ idx' = idx + 1
    /\ UNCHANGED notMain
    /\ UNCHANGED <<config, rank, num_steps, pc, epoch,
                   max_accuracy, log>>

\* train_one_epoch, lines 247 and 299-302: loader exhausted, return to main
TrainEnd ==
    /\ pc = "train"
    /\ idx >= num_steps
    /\ pc' = "save"
    /\ UNCHANGED notMain
    /\ UNCHANGED <<config, rank, num_steps, epoch, idx,
                   max_accuracy, grads, optSteps, schedSteps, clips, applied, log>>

\* variant: the final epoch is not forced to be checkpointed
ShouldSaveNoFinal(r, e, cfg) == r = 0 /\ e % cfg.SAVE_FREQ = 0

\* variant: every rank checkpoints
ShouldSaveAnyRank(r, e, cfg) == e % cfg.SAVE_FREQ = 0 \/ e = cfg.EPOCHS - 1

\* main, lines 209-211: the condition under which the epoch is checkpointed
ShouldSave(r, e, cfg) ==
    r = 0 /\ (e % cfg.SAVE_FREQ = 0 \/ e = cfg.EPOCHS - 1)

\* main, lines 209-220: save_checkpoint(config, epoch, ..., max_accuracy, ...)
SaveCheckpoint ==
    /\ pc = "save"
    /\ log' = IF ShouldSave(rank, epoch, config)
              THEN Append(log, Event("save_checkpoint", epoch, max_accuracy))
              ELSE log
    /\ pc' = "validate"
    /\ UNCHANGED notMain
    /\ UNCHANGED <<config, rank, num_steps, epoch, idx,
                   max_accuracy, grads, optSteps, schedSteps, clips, applied>>

\* variant: the latest accuracy overwrites the best one
KeepLatestAccuracy(m, acc1) == acc1

\* main, line 227: max_accuracy = max(max_accuracy, acc1)
UpdateMaxAccuracy(m, acc1) == Max(m, acc1)

\* main, lines 223-228: validate, fold acc1 into max_accuracy, next epoch
ValidateEpoch ==
    /\ pc = "validate"
    /\ \E acc1 \in 0..MaxAccVal :
         /\ log' = Append(log, Event("validate", epoch, acc1))
         /\ max_accuracy' = UpdateMaxAccuracy(max_accuracy, acc1)
    /\ epoch' = epoch + 1
    /\ pc' = "epoch_loop"
    /\ UNCHANGED notMain
    /\ UNCHANGED <<config, rank, num_steps, idx,
                   grads, optSteps, schedSteps, clips, applied>>

\* --------------------------------------------------------------- validate
MaxValBatches == 3
MaxPrintFreq == 3
MaxBatchSize == 2

\* a rational is <<numerator, denominator>>, denominator > 0
RatEq(a, b) == a[1] * b[2] = b[1] * a[2]
RatMul(a, n) == <<a[1] * n, a[2]>>
RatDiv(a, d) == <<a[1], a[2] * d>>

\* accuracies are percentages in {0, 50, 100}; top-5 is never below top-1
BatchSpace ==
    {b \in [acc1 : {0, 50, 100}, acc5 : {0, 50, 100}, n : 1..MaxBatchSize] :
        b.acc5 >= b.acc1}

\* AverageMeter(): reset state
MeterNew == [val |-> 0, sum |-> 0, count |-> 0]

\* AverageMeter.record(val, n)
MeterRecord(m, val, n) ==
    [val |-> val, sum |-> m.sum + val * n, count |-> m.count + n]

\* AverageMeter.get(): (current value, running mean)
MeterGet(m) == [val |-> m.val, avg |-> <<m.sum, m.count>>]

UnboundLocal == [bound |-> FALSE, v |-> <<0, 1>>]
Bound(x) == [bound |-> TRUE, v |-> x]

NoReturn == [status |-> "none", acc1 |-> <<0, 1>>, acc5 |-> <<0, 1>>]

IdleValidate ==
    /\ data_loader_val = <<>>
    /\ PRINT_FREQ = 1
    /\ v_pc = "idle"
    /\ v_idx = 0
    /\ acc1_meter = MeterNew
    /\ acc5_meter = MeterNew
    /\ acc1_avg = UnboundLocal
    /\ acc5_avg = UnboundLocal
    /\ time_resets = 0
    /\ v_ret = NoReturn

\* validate, lines 306-315: meters created, loop about to start
ValidateEnter ==
    /\ v_pc = "enter"
    /\ acc1_meter' = MeterNew
    /\ acc5_meter' = MeterNew
    /\ v_idx' = 0
    /\ v_pc' = "loop"
    /\ UNCHANGED <<data_loader_val, PRINT_FREQ, acc1_avg, acc5_avg, time_resets, v_ret>>
    /\ UNCHANGED <<mainVars, tpVars, distVars, lrVars>>

\* validate, line 339: the batches whose index is logged
LogDue(i, pf) == i % pf = 0

\* validate, lines 316-352: the loop body for batch v_idx
ValidateBatch ==
    /\ v_pc = "loop"
    /\ v_idx < Len(data_loader_val)
    /\ LET b  == data_loader_val[v_idx + 1]
           m1 == MeterRecord(acc1_meter, b.acc1, b.n)
           m5 == MeterRecord(acc5_meter, b.acc5, b.n)
       IN  /\ acc1_meter' = m1
           /\ acc5_meter' = m5
           /\ IF LogDue(v_idx, PRINT_FREQ)
              THEN /\ acc1_avg' = Bound(MeterGet(m1).avg)
                   /\ acc5_avg' = Bound(MeterGet(m5).avg)
                   /\ time_resets' = time_resets + 1
              ELSE UNCHANGED <<acc1_avg, acc5_avg, time_resets>>
    /\ v_idx' = v_idx + 1
    /\ UNCHANGED <<data_loader_val, PRINT_FREQ, v_pc, v_ret>>
    /\ UNCHANGED <<mainVars, tpVars, distVars, lrVars>>

\* validate, lines 354-355: the locals acc1_avg, acc5_avg are read after the loop
ValidateReturn ==
    /\ v_pc = "loop"
    /\ v_idx >= Len(data_loader_val)
    /\ v_ret' = IF acc1_avg.bound /\ acc5_avg.bound
                THEN [status |-> "ok", acc1 |-> acc1_avg.v, acc5 |-> acc5_avg.v]
                ELSE [NoReturn EXCEPT !.status = "UnboundLocalError"]
    /\ v_pc' = "returned"
    /\ UNCHANGED <<data_loader_val, PRINT_FREQ, v_idx, acc1_meter, acc5_meter,
                   acc1_avg, acc5_avg, time_resets>>
    /\ UNCHANGED <<mainVars, tpVars, distVars, lrVars>>

\* ------------------------------------------------------------- throughput
MaxTBatches == 2
WarmupPasses == 50
TimedPasses == 30

Unset == [set |-> FALSE, calls |-> 0, syncs |-> 0]
TimeTaken == [set |-> TRUE, calls |-> model_calls, syncs |-> syncs]

IdleThroughput ==
    /\ t_len = 0
    /\ t_pc = "idle"
    /\ t_fetched = 0
    /\ t_i = 0
    /\ model_calls = 0
    /\ call_batches = {}
    /\ syncs = 0
    /\ tic1 = Unset
    /\ tic2 = Unset

\* throughput, lines 362-364: fetch the next batch, or fall out of an exhausted loader
ThroughputFetch ==
    /\ t_pc = "fetch"
    /\ IF t_fetched < t_len
       THEN /\ t_fetched' = t_fetched + 1
            /\ t_i' = 0
            /\ t_pc' = "warmup"
       ELSE /\ t_pc' = "returned"
            /\ UNCHANGED <<t_fetched, t_i>>
    /\ UNCHANGED <<t_len, model_calls, call_batches, syncs, tic1, tic2>>
    /\ UNCHANGED <<mainVars, valVars, distVars, lrVars>>

\* throughput, lines 365-366: one warm-up pass
ThroughputWarmup ==
    /\ t_pc = "warmup"
    /\ t_i < WarmupPasses
    /\ model_calls' = model_calls + 1
    /\ call_batches' = call_batches \cup {t_fetched - 1}
    /\ t_i' = t_i + 1
    /\ UNCHANGED <<t_len, t_pc, t_fetched, syncs, tic1, tic2>>
    /\ UNCHANGED <<mainVars, valVars, distVars, lrVars>>

\* throughput, lines 365 and 367: warm-up loop exhausted, flow.cuda.synchronize()
ThroughputSync1 ==
    /\ t_pc = "warmup"
    /\ t_i >= WarmupPasses
    /\ syncs' = syncs + 1
    /\ t_pc' = "tic1"
    /\ UNCHANGED <<t_len, t_fetched, t_i, model_calls, call_batches, tic1, tic2>>
    /\ UNCHANGED <<mainVars, valVars, distVars, lrVars>>

\* throughput, lines 369-371: tic1 = time.time(), timed loop starts
ThroughputTic1 ==
    /\ t_pc = "tic1"
    /\ tic1' = TimeTaken
    /\ t_i' = 0
    /\ t_pc' = "timed"
    /\ UNCHANGED <<t_len, t_fetched, model_calls, call_batches, syncs, tic2>>
    /\ UNCHANGED <<mainVars, valVars, distVars, lrVars>>

\* throughput, lines 371-372: one timed pass
ThroughputTimed ==
    /\ t_pc = "timed"
    /\ t_i < TimedPasses
    /\ model_calls' = model_calls + 1
    /\ call_batches' = call_batches \cup {t_fetched - 1}
    /\ t_i' = t_i + 1
    /\ UNCHANGED <<t_len, t_pc, t_fetched, syncs, tic1, tic2>>
    /\ UNCHANGED <<mainVars, valVars, distVars, lrVars>>

\* throughput, lines 371 and 374-375: timed loop exhausted, synchronize, tic2
ThroughputSync2 ==
    /\ t_pc = "timed"
    /\ t_i >= TimedPasses
    /\ syncs' = syncs + 1
    /\ tic2' = [set |-> TRUE, calls |-> model_calls, syncs |-> syncs + 1]
    /\ t_pc' = "report"
    /\ UNCHANGED <<t_len, t_fetched, t_i, model_calls, call_batches, tic1>>
    /\ UNCHANGED <<mainVars, valVars, distVars, lrVars>>

\* variant: no return at the end of the loop body, the loader loop continues
ThroughputNextBatch ==
    /\ t_pc = "report"
    /\ t_pc' = "fetch"
    /\ UNCHANGED <<t_len, t_fetched, t_i, model_calls, call_batches, syncs, tic1, tic2>>
    /\ UNCHANGED <<mainVars, valVars, distVars, lrVars>>

\* throughput, lines 376-379: log the rate and return from inside the loader loop
ThroughputReturn ==
    /\ t_pc = "report"
    /\ t_pc' = "returned"
    /\ UNCHANGED <<t_len, t_fetched, t_i, model_calls, call_batches, syncs, tic1, tic2>>
    /\ UNCHANGED <<mainVars, valVars, distVars, lrVars>>

\* ------------------------------------------------- distributed __main__
MaxWorld == 2

Write(r, kind, e) == [rank |-> r, kind |-> kind, epoch |-> e]

IdleDist ==
    /\ world_size = 1
    /\ d_pc = <<>>
    /\ d_epoch = <<>>
    /\ dir_exists = FALSE
    /\ writes = {}
    /\ config_writes = 0

Ranks == 0..(world_size - 1)

\* __main__, line 427: os.makedirs(config.OUTPUT, exist_ok=True)
Makedirs(p) ==
    /\ d_pc[p] = "makedirs"
    /\ IF dir_exists
       THEN UNCHANGED <<dir_exists, writes>>
       ELSE /\ dir_exists' = TRUE
            /\ writes' = writes \cup {Write(p, "dir", -1)}
    /\ d_pc' = [d_pc EXCEPT ![p] = "dump_config"]
    /\ UNCHANGED <<world_size, d_epoch, config_writes>>
    /\ UNCHANGED <<mainVars, valVars, tpVars, lrVars>>

\* __main__, line 434: only rank 0 dumps the configuration
IsCoordinator(r) == r = 0

\* __main__, lines 434-438: config.json
DumpConfig(p) ==
    /\ d_pc[p] = "dump_config"
    /\ IF IsCoordinator(p)
       THEN /\ writes' = writes \cup {Write(p, "config.json", -1)}
            /\ config_writes' = config_writes + 1
       ELSE UNCHANGED <<writes, config_writes>>
    /\ d_pc' = [d_pc EXCEPT ![p] = "main"]
    /\ UNCHANGED <<world_size, d_epoch, dir_exists>>
    /\ UNCHANGED <<mainVars, valVars, tpVars, lrVars>>

\* main, lines 159-195: resume / eval / throughput dispatch, or enter the epoch loop
DistDispatch(p) ==
    /\ d_pc[p] = "main"
    /\ \E found \in BOOLEAN :                \* auto_resume_helper(config.OUTPUT)
         LET resume == config.RESUME \/ (config.AUTO_RESUME /\ found)
         IN  IF (resume /\ config.EVAL_MODE) \/ config.THROUGHPUT_MODE
             THEN /\ d_pc' = [d_pc EXCEPT ![p] = "done"]
                  /\ UNCHANGED d_epoch
             ELSE /\ d_pc' = [d_pc EXCEPT ![p] = "epoch_loop"]
                  /\ d_epoch' = [d_epoch EXCEPT ![p] = config.START_EPOCH]
    /\ UNCHANGED <<world_size, dir_exists, writes, config_writes>>
    /\ UNCHANGED <<mainVars, valVars, tpVars, lrVars>>

\* main, lines 195-208: train_one_epoch of the next epoch, or the loop ends
DistTrain(p) ==
    /\ d_pc[p] = "epoch_loop"
    /\ d_pc' = [d_pc EXCEPT ![p] = IF d_epoch[p] < config.EPOCHS THEN "save" ELSE "done"]
    /\ UNCHANGED <<world_size, d_epoch, dir_exists, writes, config_writes>>
    /\ UNCHANGED <<mainVars, valVars, tpVars, lrVars>>

\* main, lines 209-220: save_checkpoint on the saving rank
DistSave(p) ==
    /\ d_pc[p] = "save"
    /\ writes' = IF ShouldSave(p, d_epoch[p], config)
                 THEN writes \cup {Write(p, "ckpt", d_epoch[p])}
                 ELSE writes
    /\ d_pc' = [d_pc EXCEPT ![p] = "validate"]
    /\ UNCHANGED <<world_size, d_epoch, dir_exists, config_writes>>
    /\ UNCHANGED <<mainVars, valVars, tpVars, lrVars>>

\* main, lines 223-228 and 195: validate, next epoch
DistValidate(p) ==
    /\ d_pc[p] = "validate"
    /\ d_epoch' = [d_epoch EXCEPT ![p] = d_epoch[p] + 1]
    /\ d_pc' = [d_pc EXCEPT ![p] = "epoch_loop"]
    /\ UNCHANGED <<world_size, dir_exists, writes, config_writes>>
    /\ UNCHANGED <<mainVars, valVars, tpVars, lrVars>>

\* ---------------------------------------------------- learning-rate scaling
MaxLR == 2
MaxLRBatch == 4
LRBatchBase == 512

\* rates as parsed, in units of 1e-4
LRInputs == {<<n, 10000>> : n \in 0..MaxLR}

NoRate == <<0, 1>>

IdleLR ==
    /\ lr_in = [BASE_LR |-> NoRate, WARMUP_LR |-> NoRate, MIN_LR |-> NoRate,
                BATCH_SIZE |-> 1, ACCUMULATION_STEPS |-> 0]
    /\ lr_world = 1
    /\ lr_pc = "idle"
    /\ linear_scaled_lr = NoRate
    /\ linear_scaled_warmup_lr = NoRate
    /\ linear_scaled_min_lr = NoRate
    /\ lr_config = lr_in

\* variant: the world size is left out of the scaling
LinearScaleNoWorld(v, batch, world) == RatDiv(RatMul(v, batch), LRBatchBase)

\* __main__, lines 398-403: value * BATCH_SIZE * world_size / 512.0
LinearScale(v, batch, world) == RatDiv(RatMul(RatMul(v, batch), world), LRBatchBase)

\* __main__, lines 415-420: multiplied by ACCUMULATION_STEPS when it exceeds one
AccumScale(v, acc) == IF acc > 1 THEN RatMul(v, acc) ELSE v

\* __main__, lines 398-412
LinearScaleLR ==
    /\ lr_pc = "scale"
    /\ linear_scaled_lr' = LinearScale(lr_config.BASE_LR, lr_config.BATCH_SIZE, lr_world)
    /\ linear_scaled_warmup_lr' =
           LinearScale(lr_config.WARMUP_LR, lr_config.BATCH_SIZE, lr_world)
    /\ linear_scaled_min_lr' = LinearScale(lr_config.MIN_LR, lr_config.BATCH_SIZE, lr_world)
    /\ lr_pc' = "accum"
    /\ UNCHANGED <<lr_in, lr_world, lr_config>>
    /\ UNCHANGED <<mainVars, valVars, tpVars, distVars>>

\* __main__, lines 414-420
AccumScaleLR ==
    /\ lr_pc = "accum"
    /\ linear_scaled_lr' = AccumScale(linear_scaled_lr, lr_config.ACCUMULATION_STEPS)
    /\ linear_scaled_warmup_lr' =
           AccumScale(linear_scaled_warmup_lr, lr_config.ACCUMULATION_STEPS)
    /\ linear_scaled_min_lr' = AccumScale(linear_scaled_min_lr, lr_config.ACCUMULATION_STEPS)
    /\ lr_pc' = "store"
    /\ UNCHANGED <<lr_in, lr_world, lr_config>>
    /\ UNCHANGED <<mainVars, valVars, tpVars, distVars>>

\* __main__, lines 421-425
StoreLR ==
    /\ lr_pc = "store"
    /\ lr_config' = [lr_config EXCEPT !.BASE_LR = linear_scaled_lr,
                                      !.WARMUP_LR = linear_scaled_warmup_lr,
                                      !.MIN_LR = linear_scaled_min_lr]
    /\ lr_pc' = "done"
    /\ UNCHANGED <<lr_in, lr_world, linear_scaled_lr, linear_scaled_warmup_lr,
                   linear_scaled_min_lr>>
    /\ UNCHANGED <<mainVars, valVars, tpVars, distVars>>

\* --------------------------------------------------------- specifications
IdleMainLocals ==
    /\ rank = 0
    /\ num_steps = 0
    /\ pc = "idle"
    /\ epoch = 0
    /\ idx = 0
    /\ max_accuracy = 0
    /\ grads = {}
    /\ optSteps = 0
    /\ schedSteps = 0
    /\ clips = {}
    /\ applied = {}
    /\ log = <<>>

IdleConfig ==
    [EVAL_MODE |-> FALSE, THROUGHPUT_MODE |-> FALSE, AUTO_RESUME |-> FALSE,
     RESUME |-> FALSE, START_EPOCH |-> 0, EPOCHS |-> 0, SAVE_FREQ |-> 1,
     ACCUMULATION_STEPS |-> 0, CLIP_GRAD |-> FALSE]

IdleMain == IdleMainLocals /\ config = IdleConfig

Init == InitMain /\ IdleValidate /\ IdleThroughput /\ IdleDist /\ IdleLR

Next ==
    \/ AutoResume
    \/ Resume
    \/ ThroughputMode
    \/ StartTraining
    \/ TrainBegin
    \/ TrainingDone
    \/ TrainBatch
    \/ TrainEnd
    \/ SaveCheckpoint
    \/ ValidateEpoch

Spec == Init /\ [][Next]_vars

InitValidate ==
    /\ IdleMain /\ IdleThroughput /\ IdleDist /\ IdleLR
    /\ data_loader_val \in UNION {[1..n -> BatchSpace] : n \in 0..MaxValBatches}
    /\ PRINT_FREQ \in 1..MaxPrintFreq
    /\ v_pc = "enter"
    /\ v_idx = 0
    /\ acc1_meter = MeterNew
    /\ acc5_meter = MeterNew
    /\ acc1_avg = UnboundLocal
    /\ acc5_avg = UnboundLocal
    /\ time_resets = 0
    /\ v_ret = NoReturn

NextValidate ==
    \/ ValidateEnter
    \/ ValidateBatch
    \/ ValidateReturn

SpecValidate == InitValidate /\ [][NextValidate]_vars

InitThroughput ==
    /\ IdleMain /\ IdleValidate /\ IdleDist /\ IdleLR
    /\ t_len \in 0..MaxTBatches
    /\ t_pc = "fetch"
    /\ t_fetched = 0
    /\ t_i = 0
    /\ model_calls = 0
    /\ call_batches = {}
    /\ syncs = 0
    /\ tic1 = Unset
    /\ tic2 = Unset

NextThroughput ==
    \/ ThroughputFetch
    \/ ThroughputWarmup
    \/ ThroughputSync1
    \/ ThroughputTic1
    \/ ThroughputTimed
    \/ ThroughputSync2
    \/ ThroughputReturn

SpecThroughput == InitThroughput /\ [][NextThroughput]_vars

InitDist ==
    /\ IdleMainLocals /\ IdleValidate /\ IdleThroughput /\ IdleLR
    /\ config \in {c \in ConfigSpace : c.ACCUMULATION_STEPS = 0 /\ ~c.CLIP_GRAD}
    /\ world_size \in 1..MaxWorld
    /\ d_pc = [p \in Ranks |-> "makedirs"]
    /\ d_epoch = [p \in Ranks |-> 0]
    /\ dir_exists \in BOOLEAN
    /\ writes = {}
    /\ config_writes = 0

NextDist ==
    \/ \E p \in Ranks : Makedirs(p)
    \/ \E p \in Ranks : DumpConfig(p)
    \/ \E p \in Ranks : DistDispatch(p)
    \/ \E p \in Ranks : DistTrain(p)
    \/ \E p \in Ranks : DistSave(p)
    \/ \E p \in Ranks : DistValidate(p)

SpecDist == InitDist /\ [][NextDist]_vars

InitLR ==
    /\ IdleMain /\ IdleValidate /\ IdleThroughput /\ IdleDist
    /\ lr_in \in [BASE_LR : LRInputs, WARMUP_LR : LRInputs, MIN_LR : LRInputs,
                  BATCH_SIZE : 1..MaxLRBatch, ACCUMULATION_STEPS : 0..MaxAccum]
    /\ lr_world \in 1..MaxWorld
    /\ lr_pc = "scale"
    /\ linear_scaled_lr = NoRate
    /\ linear_scaled_warmup_lr = NoRate
    /\ linear_scaled_min_lr = NoRate
    /\ lr_config = lr_in

NextLR ==
    \/ LinearScaleLR
    \/ AccumScaleLR
    \/ StoreLR

SpecLR == InitLR /\ [][NextLR]_vars

\* ------------------------------------------------------------------ claims
LogIdx == 1..Len(log)
IsOp(i, op) == log[i].op = op
AccSteps == config.ACCUMULATION_STEPS
InTrainCall == pc \in {"train", "save"}

\* C1: in train_one_epoch with k >= 1 accumulation steps, after idx micro-batches
\* the optimizer has stepped floor(idx/k) times (k > 1) or idx times (k = 1), the
\* scheduler as often as the optimizer, and the call returns after all N micro-batches.
C1_StepCounts ==
    (AccSteps >= 1 /\ InTrainCall) =>
        /\ optSteps = (IF AccSteps > 1 THEN idx \div AccSteps ELSE idx)
        /\ schedSteps = optSteps
        /\ (pc = "save" => idx = num_steps)

C1_Witness ==
    /\ pc = "save"
    /\ AccSteps = 2
    /\ num_steps = 3
    /\ optSteps = 1
    /\ schedSteps = 1

\* C2: when EVAL_MODE or THROUGHPUT_MODE is set, main never calls train_one_epoch,
\* optimizer.step or save_checkpoint.
C2_NoTrainingInEvalOrThroughput ==
    (config.EVAL_MODE \/ config.THROUGHPUT_MODE) =>
        /\ applied = {}
        /\ \A i \in LogIdx : ~IsOp(i, "train_one_epoch") /\ ~IsOp(i, "save_checkpoint")

\* maximum of a non-empty finite set of numbers
RECURSIVE SetMax(_)
SetMax(S) ==
    LET x == CHOOSE y \in S : TRUE
    IN  IF S = {x} THEN x ELSE Max(x, SetMax(S \ {x}))

ResumedBest ==
    IF \E i \in LogIdx : IsOp(i, "load_checkpoint")
    THEN log[CHOOSE i \in LogIdx : IsOp(i, "load_checkpoint")].val
    ELSE 0

\* top-1 accuracies of the validations of the epoch loop in epochs lo..hi
EpochVals(lo, hi) ==
    {log[i].val : i \in {j \in LogIdx : /\ IsOp(j, "validate")
                                        /\ log[j].epoch >= lo
                                        /\ log[j].epoch <= hi}}

\* C7 as stated: every checkpoint of epoch e records the maximum of the resumed best
\* accuracy and the top-1 accuracies of the validations of epochs up to and including e.
C7_SavedBestIncludesEpoch ==
    \A i \in LogIdx :
        IsOp(i, "save_checkpoint") =>
            log[i].val = SetMax({ResumedBest} \cup EpochVals(0, log[i].epoch))

\* C7 amended: every checkpoint of epoch e records the maximum of the resumed best
\* accuracy (0 when not resumed) and the top-1 accuracies of the validations of the
\* epochs before e; the validation of epoch e itself is not included.
C7_SavedBestExcludesEpoch ==
    \A i \in LogIdx :
        IsOp(i, "save_checkpoint") =>
            log[i].val = SetMax({ResumedBest} \cup EpochVals(0, log[i].epoch - 1))

C7_Witness ==
    \E i \in LogIdx :
        /\ IsOp(i, "save_checkpoint")
        /\ log[i].epoch = 1
        /\ IsOp(1, "load_checkpoint")
        /\ ResumedBest = 0
        /\ log[i].val = 1
        /\ pc = "done"

\* C8 as stated: the checkpoint of epoch e is written only after the validation of
\* epoch e has completed.
C8_ValidateBeforeCheckpoint ==
    \A i \in LogIdx :
        IsOp(i, "save_checkpoint") =>
            \E j \in 1..(i - 1) : IsOp(j, "validate") /\ log[j].epoch = log[i].epoch

Ran(i, op, e) == i \in LogIdx /\ IsOp(i, op) /\ log[i].epoch = e

\* C8 amended: each epoch e of START_EPOCH..EPOCHS-1 runs train_one_epoch(e), then
\* save_checkpoint(e) exactly when rank = 0 and (e % SAVE_FREQ = 0 or e = EPOCHS-1),
\* then validate(e), and only then train_one_epoch(e+1) or the end of the run.
C8_TrainCheckpointValidateOrder ==
    /\ \A i \in LogIdx :
         LET e == log[i].epoch
         IN  /\ IsOp(i, "train_one_epoch") =>
                 /\ e >= config.START_EPOCH /\ e < config.EPOCHS
                 /\ IF e = config.START_EPOCH
                    THEN \A j \in 1..(i - 1) : ~IsOp(j, "train_one_epoch")
                    ELSE Ran(i - 1, "validate", e - 1)
             /\ IsOp(i, "save_checkpoint") => Ran(i - 1, "train_one_epoch", e)
             /\ (IsOp(i, "validate") /\ e >= 0) =>
                 IF rank = 0 /\ (e % config.SAVE_FREQ = 0 \/ e = config.EPOCHS - 1)
                 THEN Ran(i - 1, "save_checkpoint", e)
                 ELSE Ran(i - 1, "train_one_epoch", e)
    /\ (pc = "done" /\ ~config.THROUGHPUT_MODE /\ ~(config.RESUME /\ config.EVAL_MODE)) =>
         \A e \in config.START_EPOCH..(config.EPOCHS - 1) :
             \E i \in LogIdx : Ran(i, "train_one_epoch", e) /\ Ran(i + 1 + (IF rank = 0 /\ (e % config.SAVE_FREQ = 0 \/ e = config.EPOCHS - 1) THEN 1 ELSE 0), "validate", e)

C8_Witness ==
    /\ pc = "done"
    /\ config.SAVE_FREQ = 2
    /\ \E i \in LogIdx :
         /\ Ran(i, "train_one_epoch", 1)
         /\ Ran(i + 1, "save_checkpoint", 1)
         /\ Ran(i + 2, "validate", 1)

\* C9: with ACCUMULATION_STEPS = k > 1 and CLIP_GRAD configured, gradients are clipped
\* exactly on the micro-batches with (idx + 1) % k = 0.
C9_ClipOnlyOnStep ==
    (AccSteps > 1 /\ config.CLIP_GRAD /\ InTrainCall) =>
        clips = {i \in 0..(idx - 1) : (i + 1) % AccSteps = 0}

\* C10: every optimizer.step applies the gradients of exactly the k consecutive
\* micro-batches of the current epoch that end at the stepping one (k > 1), or of the
\* one current micro-batch (k <= 1); the trailing N mod k micro-batches of an epoch are
\* in no step, and the pending gradients are always of the current epoch.
C10_StepAppliesOwnWindow ==
    /\ \A a \in applied :
         /\ a.grads = IF AccSteps > 1
                      THEN {<<a.epoch, j>> : j \in (a.idx - AccSteps + 1)..a.idx}
                      ELSE {<<a.epoch, a.idx>>}
         /\ AccSteps > 1 =>
              /\ (a.idx + 1) % AccSteps = 0
              /\ \A g \in a.grads : g[2] < num_steps - (num_steps % AccSteps)
    /\ (AccSteps > 1 /\ InTrainCall) =>
         grads = {<<epoch, j>> : j \in (idx - (idx % AccSteps))..(idx - 1)}

C10_Witness ==
    /\ AccSteps = 2
    /\ num_steps = 3
    /\ config.START_EPOCH = 0
    /\ \E a \in applied : a.epoch = 1 /\ a.idx = 1

\* size-weighted sum of the top-1 (top = 1) or top-5 accuracies of a loader
RECURSIVE WeightedSum(_, _)
WeightedSum(loader, top) ==
    IF loader = <<>> THEN 0
    ELSE (IF top = 1 THEN Head(loader).acc1 ELSE Head(loader).acc5) * Head(loader).n
         + WeightedSum(Tail(loader), top)

RECURSIVE TotalSize(_)
TotalSize(loader) ==
    IF loader = <<>> THEN 0 ELSE Head(loader).n + TotalSize(Tail(loader))

\* C3: for a loader of n >= 1 batches validate returns the size-weighted mean of the
\* per-batch accuracies over all n batches, as top-1 and as top-5.
C3_ReturnsFinalAverage ==
    (v_pc = "returned" /\ Len(data_loader_val) >= 1) =>
        /\ v_ret.status = "ok"
        /\ RatEq(v_ret.acc1, <<WeightedSum(data_loader_val, 1), TotalSize(data_loader_val)>>)
        /\ RatEq(v_ret.acc5, <<WeightedSum(data_loader_val, 5), TotalSize(data_loader_val)>>)

\* C4: a call of throughput on a non-empty loader runs the model 80 times, all on the
\* first batch, fetches no second batch, and takes tic1 after the 50 warm-up passes
\* and a synchronization, 30 passes before tic2.
C4_ThroughputPasses ==
    /\ (t_pc = "returned" /\ t_len >= 1) =>
         /\ model_calls = 80
         /\ call_batches = {0}
         /\ t_fetched = 1
         /\ tic1.set /\ tic2.set
         /\ tic2.calls - tic1.calls = 30
    /\ tic1.set => (tic1.calls = 50 /\ tic1.syncs >= 1)

C4_Witness ==
    /\ t_pc = "returned"
    /\ t_len = 2
    /\ model_calls = 80
    /\ tic1.set

\* C5 as stated: every write to the output directory, its creation included, is
\* performed by rank 0.
C5_AllWritesByRankZero ==
    \A w \in writes : w.rank = 0

DistStarted(p) == d_pc[p] \notin {"makedirs", "dump_config"}

\* C5 amended: config.json and every checkpoint file are written by rank 0 only and
\* config.json is written exactly once (by the time rank 0 enters main); the output
\* directory is created at most once, by whichever process reaches os.makedirs first.
C5_FilesByRankZero ==
    /\ \A w \in writes : w.kind \in {"config.json", "ckpt"} => w.rank = 0
    /\ config_writes = (IF d_pc # <<>> /\ DistStarted(0) THEN 1 ELSE 0)
    /\ Cardinality({w \in writes : w.kind = "dir"}) <= 1

C5_Witness ==
    /\ world_size = 2
    /\ \A p \in Ranks : d_pc[p] = "done"
    /\ Write(1, "dir", -1) \in writes
    /\ Write(0, "ckpt", 1) \in writes
    /\ config_writes = 1

RateFields == {"BASE_LR", "WARMUP_LR", "MIN_LR"}

AccumFactor == IF lr_in.ACCUMULATION_STEPS > 1 THEN lr_in.ACCUMULATION_STEPS ELSE 1

\* C6: each stored rate equals value * batch_size * world_size / 512, times
\* ACCUMULATION_STEPS when that exceeds one; with ACCUMULATION_STEPS <= 1 the rate for
\* twice the batch size, and for twice the world size, is twice the stored rate.
C6_ScaledRates ==
    lr_pc = "done" =>
        \A f \in RateFields :
            /\ RatEq(lr_config[f],
                     <<lr_in[f][1] * lr_in.BATCH_SIZE * lr_world * AccumFactor,
                       lr_in[f][2] * 512>>)
            /\ lr_in.ACCUMULATION_STEPS <= 1 =>
                 /\ RatEq(AccumScale(LinearScale(lr_in[f], 2 * lr_in.BATCH_SIZE, lr_world),
                                     lr_in.ACCUMULATION_STEPS),
                          <<2 * lr_config[f][1], lr_config[f][2]>>)
                 /\ RatEq(AccumScale(LinearScale(lr_in[f], lr_in.BATCH_SIZE, 2 * lr_world),
                                     lr_in.ACCUMULATION_STEPS),
                          <<2 * lr_config[f][1], lr_config[f][2]>>)

C6_Witness ==
    /\ lr_pc = "done"
    /\ lr_in.ACCUMULATION_STEPS = 2
    /\ lr_world = 2
    /\ lr_in.BATCH_SIZE = 4
    /\ lr_in.BASE_LR[1] = 2
    /\ RatEq(lr_config.BASE_LR, <<32, 5120000>>)

====
